---- MODULE Spec2Model ----
(***************************************************************************)
(* Model of the universal_exchange backend: the SQLite store (orders,      *)
(* trades, balances), the POST /api/orders handler with its balance        *)
(* precheck, TradingEngine.processOrder / matchOrder / executeTrade, and   *)
(* POST /api/orders/:id/cancel, the order book query, and the settlement   *)
(* pipeline (POST /settle, the settlement_requests channel with its        *)
(* subscription, and BlockchainService.processSettlementRequest).          *)
(*                                                                         *)
(* Specifications: Spec (requests one at a time), SpecConcurrent           *)
(* (overlapping requests), SpecFault (failing store writes), SpecBook      *)
(* (runs that fill the order book), SpecSettle (settlements with failing   *)
(* operations), SpecSettleFair (the same with fair scheduling),           *)
(* SpecRedeliver (events delivered again), SpecBus (malformed messages on  *)
(* the channel), SpecProtocol (POST /settle from its first store           *)
(* operation) and SpecOverlap (settlement handlers interleaved with each   *)
(* other and with order handlers).                                         *)
(*                                                                         *)
(* Request handlers are async functions on one event loop: a handler runs  *)
(* without interruption between two store operations and may be            *)
(* interleaved with other handlers at every store operation (await).  One  *)
(* action of the model is one store operation of one handler together with *)
(* the synchronous code that follows it up to the next store operation.    *)
(*                                                                         *)
(* Amounts, prices and balances are REAL in the source; they are modelled  *)
(* as integers (prices are even so that the both-market average is exact). *)
(* created_at is SQLite CURRENT_TIMESTAMP (one-second resolution): the     *)
(* variable clock counts seconds.                                          *)
(***************************************************************************)
EXTENDS Integers, Sequences, FiniteSets, TLC

\* Number of requests (order placements and cancels) accepted in one run.
MaxRequests == 3

Addresses == {"a", "b"}
BaseAssets == {"ETH"}
Sides == {"buy", "sell"}
Types == {"limit", "market"}
Amounts == {1, 2}
Prices == {2, 4}
\* Concurrent request handlers.
Slots == {1, 2}

\* Number of settlement requests accepted in one run.
MaxSettlements == 2

\* Number of order requests in a run that also has settlements.
MaxOverlapOrders == 2

\* Number of malformed messages published on settlement_requests.
MaxMalformed == 1

\* Number of times one settlement_requests event is delivered.
MaxDeliveries == 2

\* Number of requests in a run that fills the order book, and how many of
\* them, the first ones, are drawn from the varied requests.
MaxBookRequests == 14
BookMenu == 3

VARIABLES
  orders,     \* table orders: sequence of rows, the index is the id (rowid)
  trades,     \* table trades: sequence of rows, in insertion order
  balances,   \* table balances: <<address, asset>> -> balance
  clock,      \* CURRENT_TIMESTAMP, in seconds
  procs,      \* per handler slot: position (pc) and local variables
  nreq,       \* number of requests started so far
  settlements, \* table settlements: sequence of rows, the index is the id
  jobs,       \* per settlement: position and locals of its processing
  bus         \* the subscription to the settlement_requests channel

vars == <<orders, trades, balances, clock, procs, nreq, settlements, jobs, bus>>

\* getQuoteAsset: USDC is the quote currency of every asset.
getQuoteAsset(asset) == "USDC"

Assets == BaseAssets \cup {getQuoteAsset("ETH")}

\* The assets that orders of an order book run are placed in.
BookAssets == BaseAssets \cup {"BTC"}

\* Balances present when the first request arrives.
SeedBalances ==
  [k \in Addresses \X (Assets \cup BookAssets) |->
     IF k = <<"a", "ETH">> THEN 1
     ELSE IF k = <<"a", "USDC">> THEN 2
     ELSE IF k = <<"b", "USDC">> THEN 4
     ELSE 0]

Min2(x, y) == IF x < y THEN x ELSE y

MinOf(S) == CHOOSE x \in S : \A y \in S : x <= y

-----------------------------------------------------------------------------
(* Local state of a handler slot.                                          *)

NoReq == [address |-> "", asset |-> "", side |-> "", amount |-> 0,
          price |-> 0, type |-> ""]

NoOrder == [id |-> 0, address |-> "", asset |-> "", side |-> "", amount |-> 0,
            remainingAmount |-> 0, price |-> 0, type |-> "", status |-> "",
            createdAt |-> 0]

\* pc names the store operation the handler is waiting for.
Idle == [pc |-> "idle", kind |-> "none", req |-> NoReq, orderId |-> 0,
         order |-> NoOrder, remainingOrder |-> NoOrder,
         oppositeOrders |-> <<>>, idx |-> 0, trades |-> <<>>, tIdx |-> 0,
         leg |-> 0, bal |-> 0, newStatus |-> "", newRemaining |-> 0,
         code |-> 0, status |-> ""]

OrderRequests ==
  [address : Addresses, asset : BaseAssets, side : Sides, amount : Amounts,
   price : Prices, type : Types]

\* A row of the orders table as the SELECTs of getOrders/getOrderById return it.
Row(id) == [id |-> id] @@ orders[id]

-----------------------------------------------------------------------------
(* TradingEngine: pure helpers.                                            *)

\* canMatch without the price comparison of two limit orders.
canMatchAnyPrice(order1, order2) == order1.side # order2.side

\* canMatch that asks two limit orders for a buy price above the sell price.
canMatchStrictlyAbove(order1, order2) ==
  IF order1.side = order2.side THEN FALSE
  ELSE LET buyOrder == IF order1.side = "buy" THEN order1 ELSE order2
           sellOrder == IF order1.side = "sell" THEN order1 ELSE order2
       IN IF buyOrder.type = "limit" /\ sellOrder.type = "limit"
            THEN buyOrder.price > sellOrder.price
          ELSE TRUE

\* canMatch(order1, order2)
canMatch(order1, order2) ==
  IF order1.side = order2.side THEN FALSE
  ELSE LET buyOrder == IF order1.side = "buy" THEN order1 ELSE order2
           sellOrder == IF order1.side = "sell" THEN order1 ELSE order2
       IN IF buyOrder.type = "limit" /\ sellOrder.type = "limit"
            THEN buyOrder.price >= sellOrder.price
          ELSE IF buyOrder.type = "market" \/ sellOrder.type = "market"
            THEN TRUE
          ELSE FALSE

\* determineTradePrice that takes the buy order's price whenever one of the
\* two orders is a market order.
determineTradePriceBuyer(order1, order2) ==
  LET buyOrder == IF order1.side = "buy" THEN order1 ELSE order2
      sellOrder == IF order1.side = "sell" THEN order1 ELSE order2
  IN IF buyOrder.type = "limit" /\ sellOrder.type = "limit"
       THEN IF buyOrder.createdAt < sellOrder.createdAt
              THEN buyOrder.price ELSE sellOrder.price
     ELSE IF buyOrder.type = "market" /\ sellOrder.type = "market"
       THEN (buyOrder.price + sellOrder.price) \div 2
     ELSE buyOrder.price

\* determineTradePrice that adds the two prices of a pair of limit orders.
determineTradePriceSum(order1, order2) == order1.price + order2.price

\* determineTradePrice(order1, order2)
determineTradePrice(order1, order2) ==
  LET buyOrder == IF order1.side = "buy" THEN order1 ELSE order2
      sellOrder == IF order1.side = "sell" THEN order1 ELSE order2
  IN IF buyOrder.type = "limit" /\ sellOrder.type = "limit"
       THEN IF buyOrder.createdAt < sellOrder.createdAt
              THEN buyOrder.price ELSE sellOrder.price
     ELSE IF buyOrder.type = "market" /\ sellOrder.type = "limit"
       THEN sellOrder.price
     ELSE IF buyOrder.type = "limit" /\ sellOrder.type = "market"
       THEN buyOrder.price
     ELSE (buyOrder.price + sellOrder.price) \div 2

\* The comparator with the two directions swapped.
WorstPriceFirst(side, x, y) ==
  IF side = "buy" THEN x.price <= y.price ELSE x.price >= y.price

\* The comparator of getOrdersForMatching's sort: x is not after y.
BestPriceFirst(side, x, y) ==
  IF side = "buy" THEN x.price >= y.price ELSE x.price <= y.price

\* Ids of the rows getOrdersForMatching keeps: db.getOrders(undefined,
\* 'pending') filtered on asset, side and status.
MatchingIds(asset, side) ==
  { i \in 1..Len(orders) :
      /\ orders[i].status = "pending"
      /\ orders[i].asset = asset
      /\ orders[i].side = side
      /\ orders[i].status # "cancelled" }

\* The row order of db.getOrders: ORDER BY created_at DESC.  Rows with the
\* same created_at come in an order SQL leaves open.
CreatedAtDesc(x, y) == x.createdAt >= y.createdAt

\* getOrdersForMatching: the rows of getOrders, filtered, then sorted by price
\* with Array.prototype.sort, which is stable: rows of equal price keep the
\* order of getOrders.  The set of every list the call can return.
getOrdersForMatching(asset, side) ==
  LET ids == MatchingIds(asset, side)
      n == Cardinality(ids)
  IN { [k \in 1..n |-> Row(p[k])] : p \in
         { q \in [1..n -> ids] :
             /\ \A i, j \in 1..n : i # j => q[i] # q[j]
             /\ \A i, j \in 1..n : i < j =>
                  LET x == orders[q[i]]
                      y == orders[q[j]]
                  IN /\ BestPriceFirst(side, x, y)
                     /\ (x.price = y.price => CreatedAtDesc(x, y)) } }


\* The trade record matchOrder builds for the incoming order and a candidate.
MakeTrade(order, remainingOrder, oppositeOrder) ==
  [buyOrderId |-> IF order.side = "buy" THEN order.id ELSE oppositeOrder.id,
   sellOrderId |-> IF order.side = "sell" THEN order.id ELSE oppositeOrder.id,
   asset |-> order.asset,
   amount |-> Min2(remainingOrder.remainingAmount,
                   oppositeOrder.remainingAmount),
   price |-> determineTradePrice(remainingOrder, oppositeOrder),
   buyerAddress |-> IF order.side = "buy" THEN order.address
                    ELSE oppositeOrder.address,
   sellerAddress |-> IF order.side = "sell" THEN order.address
                     ELSE oppositeOrder.address]

\* The handler's answer: the slot keeps its locals and the status code.
Done(l, code) == [l EXCEPT !.pc = "done", !.code = code]

\* processOrder's result.remainingAmount: remainingOrder?.remainingAmount || 0
ReturnedRemaining(l) ==
  IF l.remainingOrder.remainingAmount > 0
    THEN l.remainingOrder.remainingAmount ELSE 0

\* processOrder after the status update: the loop over matchResult.trades.
StartExecute(l) ==
  IF Len(l.trades) = 0 THEN Done(l, 201)
  ELSE [l EXCEPT !.pc = "createTrade", !.tIdx = 1]

\* AfterMatch that keeps the new order pending with its full amount.
AfterMatchKeepsPending(l) ==
  [l EXCEPT !.pc = "newStatus", !.newStatus = "pending",
            !.newRemaining = l.order.amount]

\* processOrder after matchOrder returned: which status and remaining amount
\* it writes for the new order (none in the middle branch when the remaining
\* amount is not below the amount).
AfterMatch(l) ==
  LET rem == l.remainingOrder.remainingAmount
      isNull == ~(rem > 0)
  IN IF Len(l.trades) = 0 /\ ~isNull /\ rem = l.order.amount
       THEN [l EXCEPT !.pc = "newStatus", !.newStatus = "pending",
                      !.newRemaining = l.order.amount]
     ELSE IF ~isNull
       THEN IF rem < l.order.amount
              THEN [l EXCEPT !.pc = "newStatus",
                             !.newStatus = "partially_filled",
                             !.newRemaining = rem]
            ELSE StartExecute(l)
     ELSE [l EXCEPT !.pc = "newStatus", !.newStatus = "filled",
                    !.newRemaining = 0]

\* Index of the first candidate at or after from that canMatch accepts, or 0.
NextCandidate(l, from) ==
  LET c == { j \in from..Len(l.oppositeOrders) :
               canMatch(l.remainingOrder, l.oppositeOrders[j]) }
  IN IF c = {} THEN 0 ELSE MinOf(c)

\* matchOrder's loop from candidate index from up to its next store
\* operation: skip the candidates canMatch rejects, build the trade, decrement
\* both local remaining amounts, and wait for updateOrderStatus.
matchLoop(l, from) ==
  LET j == NextCandidate(l, from)
  IN IF j = 0 THEN AfterMatch(l)
     ELSE LET t == MakeTrade(l.order, l.remainingOrder, l.oppositeOrders[j])
          IN [l EXCEPT !.pc = "oppStatus", !.idx = j,
                       !.trades = Append(@, t),
                       !.remainingOrder.remainingAmount = @ - t.amount,
                       !.oppositeOrders[j].remainingAmount = @ - t.amount]

\* executeTrade updates four balances in turn, each by a getBalance followed by
\* an updateBalance: buyer base, seller base, buyer quote, seller quote.
LegAddress(t, leg) ==
  IF leg = 1 \/ leg = 3 THEN t.buyerAddress ELSE t.sellerAddress

LegAsset(t, leg) ==
  IF leg = 1 \/ leg = 2 THEN t.asset ELSE getQuoteAsset(t.asset)

\* LegBalance with the seller credited the amount instead of amount * price.
LegBalanceSellerAmount(t, leg, bal) ==
  LET quoteAmount == t.amount * t.price
  IN IF leg = 1 THEN bal + t.amount
     ELSE IF leg = 2 THEN bal - t.amount
     ELSE IF leg = 3 THEN bal - quoteAmount
     ELSE bal + t.amount

\* The balance updateBalance writes for this leg, from the balance read.
LegBalance(t, leg, bal) ==
  LET quoteAmount == t.amount * t.price
  IN IF leg = 1 THEN bal + t.amount
     ELSE IF leg = 2 THEN bal - t.amount
     ELSE IF leg = 3 THEN bal - quoteAmount
     ELSE bal + quoteAmount

\* db.getBalance: a missing row reads as 0 (every pair is kept in the table).
getBalance(address, asset) == balances[<<address, asset>>]

-----------------------------------------------------------------------------
(* POST /api/orders                                                        *)

Set(s, l) == procs' = [procs EXCEPT ![s] = l]

\* A handler slot is free before its first request and after its answer (the
\* answer stays readable in the slot until the next request takes it).
Free(s) == procs[s].pc = "idle" \/ procs[s].pc = "done"

\* A new request is taken by the lowest free slot.
FreeSlot(s) ==
  /\ Free(s)
  /\ \A u \in Slots : Free(u) => s <= u
  /\ nreq < MaxRequests

\* The request arrives, validateOrderRequest accepts it, and the handler
\* issues its first getBalance.
StartOrder(s, r) ==
  /\ FreeSlot(s)
  /\ Set(s, [Idle EXCEPT !.pc = "getBalanceBase", !.kind = "order", !.req = r])
  /\ nreq' = nreq + 1
  /\ UNCHANGED <<orders, trades, balances, clock>>

\* userBalance = getBalance(address, asset); a sell needs userBalance >= amount.
PrecheckBase(s) ==
  LET l == procs[s]
      userBalance == getBalance(l.req.address, l.req.asset)
  IN /\ l.pc = "getBalanceBase"
     /\ IF l.req.side = "sell" /\ userBalance < l.req.amount
          THEN Set(s, Done(l, 400))
        ELSE IF l.req.side = "buy"
          THEN Set(s, [l EXCEPT !.pc = "getBalanceQuote"])
        ELSE Set(s, [l EXCEPT !.pc = "createOrder"])
     /\ UNCHANGED <<orders, trades, balances, clock, nreq>>

\* PrecheckQuote that lets every buy through.
PrecheckQuoteAccepts(s) ==
  /\ procs[s].pc = "getBalanceQuote"
  /\ Set(s, [procs[s] EXCEPT !.pc = "createOrder"])
  /\ UNCHANGED <<orders, trades, balances, clock, nreq>>

\* quoteBalance = getBalance(address, 'USDC'); a buy needs amount * price.
PrecheckQuote(s) ==
  LET l == procs[s]
      quoteBalance == getBalance(l.req.address, "USDC")
      requiredQuote == l.req.amount * l.req.price
  IN /\ l.pc = "getBalanceQuote"
     /\ IF quoteBalance < requiredQuote
          THEN Set(s, Done(l, 400))
        ELSE Set(s, [l EXCEPT !.pc = "createOrder"])
     /\ UNCHANGED <<orders, trades, balances, clock, nreq>>

\* The row db.createOrder inserts.
NewOrderRow(r) ==
  [address |-> r.address, asset |-> r.asset, side |-> r.side,
   amount |-> r.amount, remainingAmount |-> r.amount, price |-> r.price,
   type |-> r.type, status |-> "pending", createdAt |-> clock]

\* TradingEngine.createOrder: INSERT INTO orders.
CreateOrder(s) ==
  LET l == procs[s]
  IN /\ l.pc = "createOrder"
     /\ orders' = Append(orders, NewOrderRow(l.req))
     /\ Set(s, [l EXCEPT !.pc = "getOrderById", !.orderId = Len(orders) + 1])
     /\ UNCHANGED <<trades, balances, clock, nreq>>

\* order = getOrderById(orderId); matchOrder copies it into remainingOrder and
\* issues getOrders.
GetOrderById(s) ==
  LET l == procs[s]
  IN /\ l.pc = "getOrderById"
     /\ Set(s, [l EXCEPT !.pc = "getOrders", !.order = Row(l.orderId),
                         !.remainingOrder = Row(l.orderId)])
     /\ UNCHANGED <<orders, trades, balances, clock, nreq>>

\* getOrdersForMatching returns; the loop runs up to its first store write.
GetOrders(s) ==
  LET l == procs[s]
      oppositeSide == IF l.order.side = "buy" THEN "sell" ELSE "buy"
  IN /\ l.pc = "getOrders"
     /\ \E list \in getOrdersForMatching(l.order.asset, oppositeSide) :
          Set(s, matchLoop([l EXCEPT !.oppositeOrders = list], 1))
     /\ UNCHANGED <<orders, trades, balances, clock, nreq>>

\* OppositeStatus that marks every traded candidate filled.
OppositeStatusFilled(oppositeOrder) == "filled"

\* OppositeStatus that leaves a candidate with an amount left pending.
OppositeStatusStaysPending(oppositeOrder) ==
  IF oppositeOrder.remainingAmount = 0 THEN "filled" ELSE "pending"

\* The status matchOrder writes for a candidate after the trade.
OppositeStatus(oppositeOrder) ==
  IF oppositeOrder.remainingAmount = 0 THEN "filled" ELSE "partially_filled"

\* The remaining amount matchOrder writes for a candidate after the trade.
OppositeRemaining(oppositeOrder) ==
  IF oppositeOrder.remainingAmount = 0 THEN 0
  ELSE oppositeOrder.remainingAmount

\* updateOrderStatus(oppositeOrder.id, ...)
UpdateOppositeStatus(s) ==
  LET l == procs[s]
      opp == l.oppositeOrders[l.idx]
  IN /\ l.pc = "oppStatus"
     /\ orders' = [orders EXCEPT ![opp.id].status = OppositeStatus(opp)]
     /\ Set(s, [l EXCEPT !.pc = "oppRemaining"])
     /\ UNCHANGED <<trades, balances, clock, nreq>>

\* updateOrderRemainingAmount(oppositeOrder.id, ...), then the loop goes on:
\* break when the incoming order is filled, else the next candidate.
UpdateOppositeRemaining(s) ==
  LET l == procs[s]
      opp == l.oppositeOrders[l.idx]
  IN /\ l.pc = "oppRemaining"
     /\ orders' = [orders EXCEPT ![opp.id].remainingAmount =
                                    OppositeRemaining(opp)]
     /\ Set(s, IF l.remainingOrder.remainingAmount = 0 THEN AfterMatch(l)
               ELSE matchLoop(l, l.idx + 1))
     /\ UNCHANGED <<trades, balances, clock, nreq>>

\* processOrder: updateOrderStatus(orderId, ...)
UpdateNewStatus(s) ==
  LET l == procs[s]
  IN /\ l.pc = "newStatus"
     /\ orders' = [orders EXCEPT ![l.orderId].status = l.newStatus]
     /\ Set(s, [l EXCEPT !.pc = "newRemaining"])
     /\ UNCHANGED <<trades, balances, clock, nreq>>

\* processOrder: updateOrderRemainingAmount(orderId, ...), then the trades.
UpdateNewRemaining(s) ==
  LET l == procs[s]
  IN /\ l.pc = "newRemaining"
     /\ orders' = [orders EXCEPT ![l.orderId].remainingAmount = l.newRemaining]
     /\ Set(s, StartExecute(l))
     /\ UNCHANGED <<trades, balances, clock, nreq>>

\* executeTrade: db.createTrade
CreateTrade(s) ==
  LET l == procs[s]
  IN /\ l.pc = "createTrade"
     /\ trades' = Append(trades, l.trades[l.tIdx])
     /\ Set(s, [l EXCEPT !.pc = "getBalance", !.leg = 1])
     /\ UNCHANGED <<orders, balances, clock, nreq>>

\* executeTrade: one of its four db.getBalance calls
GetBalance(s) ==
  LET l == procs[s]
      t == l.trades[l.tIdx]
  IN /\ l.pc = "getBalance"
     /\ Set(s, [l EXCEPT !.pc = "updateBalance",
                         !.bal = getBalance(LegAddress(t, l.leg),
                                            LegAsset(t, l.leg))])
     /\ UNCHANGED <<orders, trades, balances, clock, nreq>>

\* executeTrade: the db.updateBalance that follows; after the fourth, the
\* next trade of processOrder's loop, or the answer 201.
UpdateBalance(s) ==
  LET l == procs[s]
      t == l.trades[l.tIdx]
  IN /\ l.pc = "updateBalance"
     /\ balances' = [balances EXCEPT
                       ![<<LegAddress(t, l.leg), LegAsset(t, l.leg)>>] =
                         LegBalance(t, l.leg, l.bal)]
     /\ Set(s, IF l.leg < 4 THEN [l EXCEPT !.pc = "getBalance", !.leg = @ + 1]
               ELSE IF l.tIdx < Len(l.trades)
                 THEN [l EXCEPT !.pc = "createTrade", !.tIdx = @ + 1]
               ELSE Done(l, 201))
     /\ UNCHANGED <<orders, trades, clock, nreq>>

-----------------------------------------------------------------------------
(* POST /api/orders/:id/cancel                                             *)

\* The ids a cancel request can name: those of stored orders, and 0 for an
\* id no order has.
StartCancel(s, id) ==
  /\ FreeSlot(s)
  /\ id \in 0..Len(orders)
  /\ Set(s, [Idle EXCEPT !.pc = "cancelSelect", !.kind = "cancel",
                         !.orderId = id])
  /\ nreq' = nreq + 1
  /\ UNCHANGED <<orders, trades, balances, clock>>

\* Cancellable that accepts pending orders only.
CancellablePendingOnly(status) == status = "pending"

\* cancelOrder's check on the status it read.
Cancellable(status) == status = "pending" \/ status = "partially_filled"

\* db.cancelOrder: SELECT status; on failure the handler issues getOrderById.
CancelSelect(s) ==
  LET l == procs[s]
  IN /\ l.pc = "cancelSelect"
     /\ IF l.orderId \in 1..Len(orders) /\ Cancellable(orders[l.orderId].status)
          THEN Set(s, [l EXCEPT !.pc = "cancelUpdate"])
        ELSE Set(s, [l EXCEPT !.pc = "cancelGetOrder"])
     /\ UNCHANGED <<orders, trades, balances, clock, nreq>>

\* CancelUpdate that also clears the order's remaining amount.
CancelUpdateAndRelease(s) ==
  LET l == procs[s]
  IN /\ l.pc = "cancelUpdate"
     /\ orders' = [orders EXCEPT ![l.orderId].status = "cancelled",
                                 ![l.orderId].remainingAmount = 0]
     /\ Set(s, Done(l, 200))
     /\ UNCHANGED <<trades, balances, clock, nreq>>

\* db.cancelOrder: UPDATE orders SET status = 'cancelled'; the answer is 200.
CancelUpdate(s) ==
  LET l == procs[s]
  IN /\ l.pc = "cancelUpdate"
     /\ orders' = [orders EXCEPT ![l.orderId].status = "cancelled"]
     /\ Set(s, Done(l, 200))
     /\ UNCHANGED <<trades, balances, clock, nreq>>

\* The handler after cancelOrder returned false: getOrderById, then 404 for
\* no order and 400 with the status read otherwise.
CancelGetOrder(s) ==
  LET l == procs[s]
  IN /\ l.pc = "cancelGetOrder"
     /\ IF l.orderId \in 1..Len(orders)
          THEN Set(s, [Done(l, 400) EXCEPT !.status = orders[l.orderId].status])
        ELSE Set(s, Done(l, 404))
     /\ UNCHANGED <<orders, trades, balances, clock, nreq>>

-----------------------------------------------------------------------------

\* A second passes.  Only the INSERT of createOrder reads the time, and only
\* the order of the created_at values matters: the clock moves when an
\* INSERT is waiting and a stored order carries the current second.
Tick ==
  /\ \E s \in Slots : procs[s].pc = "createOrder"
  /\ \E i \in 1..Len(orders) : orders[i].createdAt = clock
  /\ clock' = clock + 1
  /\ UNCHANGED <<orders, trades, balances, procs, nreq>>

Init ==
  /\ orders = <<>>
  /\ trades = <<>>
  /\ balances = SeedBalances
  /\ clock = 0
  /\ procs = [s \in Slots |-> Idle]
  /\ nreq = 0
  /\ settlements = <<>>
  /\ jobs = <<>>
  /\ bus = [subscribed |-> TRUE, malformed |-> 0, at |-> 0]

\* One store operation of the handler in slot s.
Step(s) ==
  \/ PrecheckBase(s)
  \/ PrecheckQuote(s)
  \/ CreateOrder(s)
  \/ GetOrderById(s)
  \/ GetOrders(s)
  \/ UpdateOppositeStatus(s)
  \/ UpdateOppositeRemaining(s)
  \/ UpdateNewStatus(s)
  \/ UpdateNewRemaining(s)
  \/ CreateTrade(s)
  \/ GetBalance(s)
  \/ UpdateBalance(s)
  \/ CancelSelect(s)
  \/ CancelUpdate(s)
  \/ CancelGetOrder(s)

\* No handler is running.
Quiescent == \A s \in Slots : Free(s)

\* Requests are handled one at a time: each runs to completion before the
\* next arrives.
Next ==
  /\ \/ Quiescent /\ \E s \in Slots : \E r \in OrderRequests : StartOrder(s, r)
     \/ Quiescent /\ \E s \in Slots : \E id \in 0..MaxRequests : StartCancel(s, id)
     \/ \E s \in Slots : Step(s)
     \/ Tick
  /\ UNCHANGED <<settlements, jobs, bus>>

Spec == Init /\ [][Next]_vars

\* Requests are handled concurrently: a request may arrive while another
\* handler waits for a store operation.  The runs explored are those of limit
\* orders at one price and of cancels, all within one second, in which only
\* the last two requests overlap (the earlier ones are handled one at a
\* time).
MayArrive == Quiescent \/ nreq = MaxRequests - 1

ConcurrentRequests ==
  { r \in OrderRequests : r.type = "limit" /\ \A p \in Prices : r.price <= p }

NextConcurrent ==
  /\ \/ MayArrive /\ \E s \in Slots : \E r \in ConcurrentRequests : StartOrder(s, r)
     \/ MayArrive /\ \E s \in Slots : \E id \in 0..MaxRequests : StartCancel(s, id)
     \/ \E s \in Slots : Step(s)
  /\ UNCHANGED <<settlements, jobs, bus>>

SpecConcurrent == Init /\ [][NextConcurrent]_vars

\* The store writes of a process_order call.
WriteOperations ==
  {"createOrder", "oppStatus", "oppRemaining", "newStatus", "newRemaining",
   "createTrade", "updateBalance"}

\* A store write of process_order raises an error (the write has no effect):
\* the error leaves processOrder and the route's catch block answers 400.
WriteFails(s) ==
  /\ procs[s].kind = "order"
  /\ procs[s].pc \in WriteOperations
  /\ Set(s, Done(procs[s], 400))
  /\ UNCHANGED <<orders, trades, balances, clock, nreq>>

\* Requests handled one at a time, within one second, with store writes that
\* may fail.
NextFault ==
  /\ \/ Quiescent /\ \E s \in Slots : \E r \in OrderRequests : StartOrder(s, r)
     \/ Quiescent /\ \E s \in Slots : \E id \in 0..MaxRequests : StartCancel(s, id)
     \/ \E s \in Slots : Step(s)
     \/ \E s \in Slots : WriteFails(s)
  /\ UNCHANGED <<settlements, jobs, bus>>

SpecFault == Init /\ [][NextFault]_vars

-----------------------------------------------------------------------------
(* GET /api/orders/book/:asset                                             *)

\* LIMIT of the two order book queries.
BookLimit == 10

\* BookRows without the condition on the status.
BookRowsAnyStatus(asset, side) ==
  { i \in 1..Len(orders) : orders[i].asset = asset /\ orders[i].side = side }

\* The rows one order book query aggregates: WHERE asset = ? AND side = ?
\* AND status = 'pending'.
BookRows(asset, side) ==
  { i \in 1..Len(orders) : /\ orders[i].asset = asset
                            /\ orders[i].side = side
                            /\ orders[i].status = "pending" }

\* ORDER BY price DESC for the bids, ASC for the asks.
RECURSIVE BookOrder(_, _)
BookOrder(S, side) ==
  IF S = {} THEN <<>>
  ELSE LET best == CHOOSE x \in S :
                     \A y \in S : IF side = "buy" THEN x >= y ELSE x <= y
       IN <<best>> \o BookOrder(S \ {best}, side)

\* Sum of the stored remaining amounts of a set of orders.
RECURSIVE SumRemaining(_)
SumRemaining(S) ==
  IF S = {} THEN 0
  ELSE LET i == CHOOSE j \in S : TRUE
       IN orders[i].remainingAmount + SumRemaining(S \ {i})

\* One GROUP BY price row: SUM(remaining_amount), COUNT(*).
BookLevel(asset, side, p) ==
  LET rows == { i \in BookRows(asset, side) : orders[i].price = p }
  IN [price |-> p, totalAmount |-> SumRemaining(rows),
      orderCount |-> Cardinality(rows)]

\* db.getOrderBook: the bids (side buy) or the asks (side sell) of an asset.
getOrderBook(asset, side) ==
  LET ps == BookOrder({ orders[i].price : i \in BookRows(asset, side) }, side)
  IN [k \in 1..Min2(Len(ps), BookLimit) |-> BookLevel(asset, side, ps[k])]

\* Runs that fill the order book.  The first BookMenu requests are drawn from
\* VariedRequests and from cancels; each later request is a limit sell of 1
\* ETH at a price above every earlier one, so that the asks get a new level.
AskPrice(k) == 4 + k

VariedRequests ==
  { [address |-> "b", asset |-> "ETH", side |-> "buy", amount |-> 1,
     price |-> 2, type |-> "limit"],
    [address |-> "b", asset |-> "ETH", side |-> "buy", amount |-> 1,
     price |-> 4, type |-> "limit"],
    [address |-> "b", asset |-> "BTC", side |-> "buy", amount |-> 1,
     price |-> 2, type |-> "limit"],
    [address |-> "a", asset |-> "ETH", side |-> "sell", amount |-> 1,
     price |-> 2, type |-> "limit"],
    [address |-> "a", asset |-> "ETH", side |-> "sell", amount |-> 1,
     price |-> AskPrice(BookMenu + 1), type |-> "limit"] }

\* The requests the k-th call of the run may carry.
BookRequests(k) ==
  IF k <= BookMenu THEN VariedRequests
  ELSE { [address |-> "a", asset |-> "ETH", side |-> "sell", amount |-> 1,
          price |-> AskPrice(k), type |-> "limit"] }

BookFreeSlot(s) ==
  /\ Free(s)
  /\ \A u \in Slots : Free(u) => s <= u
  /\ nreq < MaxBookRequests

\* POST /api/orders in an order book run.
StartBookOrder(s, r) ==
  /\ BookFreeSlot(s)
  /\ r \in BookRequests(nreq + 1)
  /\ Set(s, [Idle EXCEPT !.pc = "getBalanceBase", !.kind = "order", !.req = r])
  /\ nreq' = nreq + 1
  /\ UNCHANGED <<orders, trades, balances, clock>>

\* POST /api/orders/:id/cancel in an order book run.
StartBookCancel(s, id) ==
  /\ BookFreeSlot(s)
  /\ nreq < BookMenu
  /\ id \in 0..Len(orders)
  /\ Set(s, [Idle EXCEPT !.pc = "cancelSelect", !.kind = "cancel",
                         !.orderId = id])
  /\ nreq' = nreq + 1
  /\ UNCHANGED <<orders, trades, balances, clock>>

NextBook ==
  /\ \/ Quiescent /\ \E s \in Slots : \E r \in BookRequests(nreq + 1) :
                       StartBookOrder(s, r)
     \/ Quiescent /\ \E s \in Slots : \E id \in 0..BookMenu : StartBookCancel(s, id)
     \/ \E s \in Slots : Step(s)
  /\ UNCHANGED <<settlements, jobs, bus>>

SpecBook == Init /\ [][NextBook]_vars

-----------------------------------------------------------------------------
(* POST /settle and BlockchainService.processSettlementRequest.            *)
(*                                                                         *)
(* Every store and publish operation of the processor may raise an error   *)
(* (the operation then has no effect); control goes to the catch block.    *)

\* The bodies POST /settle accepts: from # to, amount > 0.
SettlementRequests ==
  { r \in [from : Addresses, to : Addresses, amount : Amounts, asset : Assets] :
      r.from # r.to }

\* Locals of processSettlementRequest: senderBalance and receiverBalance are
\* -1 until read; thrownAt names the operation that raised the error caught.
\* fromBefore and toBefore keep the two balances as they were when the
\* processor was called; delivery counts the deliveries of the event.
\* catchThrownAt names the operation of the catch block that raised an error,
\* event is the last event the processor published, and outcome tells how
\* the call of the processor ended.
NewJob ==
  [pc |-> "publish", senderBalance |-> -1, receiverBalance |-> -1,
   thrownAt |-> "", fromBefore |-> -1, toBefore |-> -1, delivery |-> 0,
   catchThrownAt |-> "", event |-> "", outcome |-> ""]

SettlementIds == 1..Len(settlements)

\* No settlement is on its way.
SettleQuiescent == \A i \in SettlementIds : jobs[i].pc = "end"

SetJob(i, j) == jobs' = [jobs EXCEPT ![i] = j]

SettleFrame == UNCHANGED <<orders, trades, clock, procs, nreq, bus>>

\* confirmedAt that takes the time of the write for every status.
ConfirmedAtAlways(status) == "time"

\* updateSettlementStatus: confirmed_at is the time of the write for the
\* status confirmed and NULL otherwise.
ConfirmedAt(status) == IF status = "confirmed" THEN "time" ELSE "null"

\* updateSettlementStatus(id, status): UPDATE settlements SET status = ?,
\* confirmed_at = ? WHERE id = ?
updateSettlementStatus(i, status) ==
  settlements' = [settlements EXCEPT ![i].status = status,
                                     ![i].confirmedAt = ConfirmedAt(status)]

\* POST /settle: createSettlement inserts the row with status pending.
\* Settlements are taken one at a time.
CreateSettlement(r) ==
  /\ Len(settlements) < MaxSettlements
  /\ SettleQuiescent
  /\ settlements' = Append(settlements,
       [from |-> r.from, to |-> r.to, amount |-> r.amount, asset |-> r.asset,
        status |-> "pending", confirmedAt |-> "null"])
  /\ jobs' = Append(jobs, NewJob)
  /\ UNCHANGED balances /\ SettleFrame

\* POST /settle: publishSettlementRequest; the subscriber, if the
\* subscription stands, calls processSettlementRequest with the event.
PublishSettlementRequest(i) ==
  LET e == settlements[i]
  IN /\ jobs[i].pc = "publish"
     /\ SetJob(i, [jobs[i] EXCEPT
                     !.pc = IF bus.subscribed THEN "delay" ELSE "end",
                     !.delivery = IF bus.subscribed THEN 1 ELSE 0,
                     !.fromBefore = balances[<<e.from, e.asset>>],
                     !.toBefore = balances[<<e.to, e.asset>>]])
     /\ UNCHANGED <<settlements, balances>> /\ SettleFrame

\* POST /settle: the publish fails, the route hands the error on and no
\* event is delivered.
PublishRequestThrows(i) ==
  /\ jobs[i].pc = "publish"
  /\ SetJob(i, [jobs[i] EXCEPT !.pc = "end", !.thrownAt = "publish"])
  /\ UNCHANGED <<settlements, balances>> /\ SettleFrame

\* The simulated confirmation delay.
Delay(i) ==
  /\ jobs[i].pc = "delay"
  /\ SetJob(i, [jobs[i] EXCEPT !.pc = "getSender"])
  /\ UNCHANGED <<settlements, balances>> /\ SettleFrame

\* senderBalance = getBalance(from, asset), then the balance check.
GetSenderBalance(i) ==
  LET e == settlements[i]
      senderBalance == getBalance(e.from, e.asset)
  IN /\ jobs[i].pc = "getSender"
     /\ SetJob(i, [jobs[i] EXCEPT
                     !.senderBalance = senderBalance,
                     !.pc = IF senderBalance < e.amount THEN "failStatus"
                            ELSE "getReceiver"])
     /\ UNCHANGED <<settlements, balances>> /\ SettleFrame

\* Insufficient balance: updateSettlementStatus(id, 'failed').
FailStatus(i) ==
  /\ jobs[i].pc = "failStatus"
  /\ updateSettlementStatus(i, "failed")
  /\ SetJob(i, [jobs[i] EXCEPT !.pc = "failPublish"])
  /\ UNCHANGED balances /\ SettleFrame

\* Insufficient balance: publishSettlementFailed, return.
FailPublish(i) ==
  /\ jobs[i].pc = "failPublish"
  /\ SetJob(i, [jobs[i] EXCEPT !.pc = "end", !.outcome = "returned",
                  !.event = "settlement_failed: Insufficient balance"])
  /\ UNCHANGED <<settlements, balances>> /\ SettleFrame

\* receiverBalance = getBalance(to, asset)
GetReceiverBalance(i) ==
  LET e == settlements[i]
  IN /\ jobs[i].pc = "getReceiver"
     /\ SetJob(i, [jobs[i] EXCEPT !.receiverBalance = getBalance(e.to, e.asset),
                                  !.pc = "updSender"])
     /\ UNCHANGED <<settlements, balances>> /\ SettleFrame

\* newReceiverBalance that leaves the receiver without the amount.
NewReceiverBalanceSame(receiverBalance, amount) == receiverBalance

\* newSenderBalance and newReceiverBalance
NewSenderBalance(senderBalance, amount) == senderBalance - amount

NewReceiverBalance(receiverBalance, amount) == receiverBalance + amount

\* updateBalance(from, asset, newSenderBalance)
UpdateSenderBalance(i) ==
  LET e == settlements[i]
  IN /\ jobs[i].pc = "updSender"
     /\ balances' = [balances EXCEPT ![<<e.from, e.asset>>] =
                       NewSenderBalance(jobs[i].senderBalance, e.amount)]
     /\ SetJob(i, [jobs[i] EXCEPT !.pc = "updReceiver"])
     /\ UNCHANGED settlements /\ SettleFrame

\* updateBalance(to, asset, newReceiverBalance)
UpdateReceiverBalance(i) ==
  LET e == settlements[i]
  IN /\ jobs[i].pc = "updReceiver"
     /\ balances' = [balances EXCEPT ![<<e.to, e.asset>>] =
                       NewReceiverBalance(jobs[i].receiverBalance, e.amount)]
     /\ SetJob(i, [jobs[i] EXCEPT !.pc = "confirmStatus"])
     /\ UNCHANGED settlements /\ SettleFrame

\* updateSettlementStatus(id, 'confirmed')
ConfirmStatus(i) ==
  /\ jobs[i].pc = "confirmStatus"
  /\ updateSettlementStatus(i, "confirmed")
  /\ SetJob(i, [jobs[i] EXCEPT !.pc = "confirmPublish"])
  /\ UNCHANGED balances /\ SettleFrame

\* publishSettlementConfirmed, the end of the try block.
ConfirmPublish(i) ==
  /\ jobs[i].pc = "confirmPublish"
  /\ SetJob(i, [jobs[i] EXCEPT !.pc = "end", !.outcome = "returned",
                  !.event = "settlement_confirmed"])
  /\ UNCHANGED <<settlements, balances>> /\ SettleFrame

\* The store and publish operations inside the try block.
TryOperations ==
  {"getSender", "failStatus", "failPublish", "getReceiver", "updSender",
   "updReceiver", "confirmStatus", "confirmPublish"}

\* Throw that leaves the processor without running the catch block.
ThrowSkipsCatch(i) ==
  /\ jobs[i].pc \in TryOperations
  /\ SetJob(i, [jobs[i] EXCEPT !.pc = "end", !.thrownAt = jobs[i].pc,
                  !.outcome = "returned"])
  /\ UNCHANGED <<settlements, balances>> /\ SettleFrame

\* An operation of the try block raises an error: control goes to catch.
Throw(i) ==
  /\ jobs[i].pc \in TryOperations
  /\ SetJob(i, [jobs[i] EXCEPT !.pc = "catchStatus", !.thrownAt = jobs[i].pc])
  /\ UNCHANGED <<settlements, balances>> /\ SettleFrame

\* catch: updateSettlementStatus(id, 'failed')
CatchStatus(i) ==
  /\ jobs[i].pc = "catchStatus"
  /\ updateSettlementStatus(i, "failed")
  /\ SetJob(i, [jobs[i] EXCEPT !.pc = "catchPublish"])
  /\ UNCHANGED balances /\ SettleFrame

\* catch: publishSettlementFailed(id, 'Processing error occurred')
CatchPublish(i) ==
  /\ jobs[i].pc = "catchPublish"
  /\ SetJob(i, [jobs[i] EXCEPT !.pc = "end", !.outcome = "returned",
                  !.event = "settlement_failed: Processing error occurred"])
  /\ UNCHANGED <<settlements, balances>> /\ SettleFrame

\* An operation of the catch block raises an error: the inner catch logs it
\* and the processor returns.
CatchThrows(i) ==
  /\ jobs[i].pc \in {"catchStatus", "catchPublish"}
  /\ SetJob(i, [jobs[i] EXCEPT !.pc = "end", !.catchThrownAt = jobs[i].pc,
                  !.outcome = "returned"])
  /\ UNCHANGED <<settlements, balances>> /\ SettleFrame

\* One step of the settlement with id i.
SettleStep(i) ==
  \/ PublishSettlementRequest(i)
  \/ PublishRequestThrows(i)
  \/ Delay(i)
  \/ GetSenderBalance(i)
  \/ FailStatus(i)
  \/ FailPublish(i)
  \/ GetReceiverBalance(i)
  \/ UpdateSenderBalance(i)
  \/ UpdateReceiverBalance(i)
  \/ ConfirmStatus(i)
  \/ ConfirmPublish(i)
  \/ Throw(i)
  \/ CatchStatus(i)
  \/ CatchPublish(i)
  \/ CatchThrows(i)

\* Settlements on their own, no order traffic.
NextSettle ==
  \/ \E r \in SettlementRequests : CreateSettlement(r)
  \/ \E i \in SettlementIds : SettleStep(i)

SpecSettle == Init /\ [][NextSettle]_vars

\* The processor task and the route handler are scheduled fairly: a
\* settlement that has a step to take takes one.
SpecSettleFair ==
  SpecSettle /\ WF_vars(\E i \in SettlementIds : SettleStep(i))

\* The subscription after the message callback has run, without the
\* callback's try/catch: an error raised in it ends the subscription.
SubscribedAfterUncaught(subscribed, raised) == subscribed /\ ~raised

\* The subscription after the message callback has run: the callback catches
\* and logs whatever JSON.parse or the handler raises.
SubscribedAfter(subscribed, raised) == subscribed

\* A message that is not JSON arrives on settlement_requests: JSON.parse
\* raises inside the callback.  The field at keeps the number of settlements
\* stored at that moment.  Messages are taken one at a time.
DeliverMalformed ==
  /\ SettleQuiescent
  /\ bus.subscribed
  /\ bus.malformed < MaxMalformed
  /\ bus' = [subscribed |-> SubscribedAfter(bus.subscribed, TRUE),
             malformed |-> bus.malformed + 1,
             at |-> Len(settlements)]
  /\ UNCHANGED <<orders, trades, balances, clock, procs, nreq, settlements, jobs>>

\* One step of the settlement with id i when no operation raises an error.
ProcessStep(i) ==
  \/ PublishSettlementRequest(i)
  \/ Delay(i)
  \/ GetSenderBalance(i)
  \/ FailStatus(i)
  \/ FailPublish(i)
  \/ GetReceiverBalance(i)
  \/ UpdateSenderBalance(i)
  \/ UpdateReceiverBalance(i)
  \/ ConfirmStatus(i)
  \/ ConfirmPublish(i)

\* Settlements whose operations succeed, with malformed messages on the
\* channel.
NextBus ==
  \/ \E r \in SettlementRequests : CreateSettlement(r)
  \/ \E i \in SettlementIds : ProcessStep(i)
  \/ DeliverMalformed

SpecBus == Init /\ [][NextBus]_vars

\* POST /settle up to its first store operation: the request is validated,
\* the id is drawn and createSettlement is issued; no row is stored yet
\* (status absent).
ReceiveSettle(r) ==
  /\ Len(settlements) < MaxSettlements
  /\ SettleQuiescent
  /\ settlements' = Append(settlements,
       [from |-> r.from, to |-> r.to, amount |-> r.amount, asset |-> r.asset,
        status |-> "absent", confirmedAt |-> "null"])
  /\ jobs' = Append(jobs, [NewJob EXCEPT !.pc = "insert"])
  /\ UNCHANGED balances /\ SettleFrame

\* InsertThrows after which the route publishes the request all the same.
InsertThrowsAndPublishes(i) ==
  /\ jobs[i].pc = "insert"
  /\ SetJob(i, [jobs[i] EXCEPT !.pc = "publish", !.thrownAt = "insert"])
  /\ UNCHANGED <<settlements, balances>> /\ SettleFrame

\* createSettlement raises an error: the route hands it on, nothing is
\* stored and nothing is published.
InsertThrows(i) ==
  /\ jobs[i].pc = "insert"
  /\ SetJob(i, [jobs[i] EXCEPT !.pc = "end", !.thrownAt = "insert"])
  /\ UNCHANGED <<settlements, balances>> /\ SettleFrame

\* createSettlement inserts the row with status pending; the route goes on
\* to publishSettlementRequest.
InsertSettlement(i) ==
  /\ jobs[i].pc = "insert"
  /\ settlements' = [settlements EXCEPT ![i].status = "pending"]
  /\ SetJob(i, [jobs[i] EXCEPT !.pc = "publish"])
  /\ UNCHANGED balances /\ SettleFrame

\* Settlements one at a time, from the arrival of the request, with an insert
\* and a publish that may fail.
NextProtocol ==
  \/ \E r \in SettlementRequests : ReceiveSettle(r)
  \/ \E i \in SettlementIds : InsertSettlement(i)
  \/ \E i \in SettlementIds : InsertThrows(i)
  \/ \E i \in SettlementIds : SettleStep(i)

SpecProtocol == Init /\ [][NextProtocol]_vars

\* The order requests of the runs with settlements: limit orders of one
\* unit at the lowest price.
OverlapRequests == { r \in ConcurrentRequests : r.amount = 1 }

\* The settlement requests of those runs: transfers of USDC, the asset
\* every trade moves too.
OverlapSettlements == { r \in SettlementRequests : r.asset = "USDC" }

\* POST /settle with other settlements on their way: createSettlement
\* inserts the row with status pending.
SettlementArrives(r) ==
  /\ Len(settlements) < MaxSettlements
  /\ settlements' = Append(settlements,
       [from |-> r.from, to |-> r.to, amount |-> r.amount, asset |-> r.asset,
        status |-> "pending", confirmedAt |-> "null"])
  /\ jobs' = Append(jobs, NewJob)
  /\ UNCHANGED balances /\ SettleFrame

\* Settlement handlers run concurrently with each other and with the
\* handlers of POST /api/orders (these one at a time); no operation raises
\* an error.
NextOverlap ==
  \/ \E r \in OverlapSettlements : SettlementArrives(r)
  \/ \E i \in SettlementIds : ProcessStep(i)
  \/ /\ Quiescent /\ nreq < MaxOverlapOrders
     /\ \E s \in Slots : \E r \in OverlapRequests : StartOrder(s, r)
     /\ UNCHANGED <<settlements, jobs, bus>>
  \/ /\ \E s \in Slots : Step(s)
     /\ UNCHANGED <<settlements, jobs, bus>>

SpecOverlap == Init /\ [][NextOverlap]_vars

\* The settlement_requests event of a settlement that has reached confirmed
\* or failed is delivered once more: the subscriber parses the message and
\* calls processSettlementRequest with the same event.
Redeliver(i) ==
  LET e == settlements[i]
  IN /\ SettleQuiescent
     /\ jobs[i].pc = "end"
     /\ e.status \in {"confirmed", "failed"}
     /\ jobs[i].delivery < MaxDeliveries
     /\ SetJob(i, [NewJob EXCEPT !.pc = "delay",
                     !.delivery = jobs[i].delivery + 1,
                     !.fromBefore = balances[<<e.from, e.asset>>],
                     !.toBefore = balances[<<e.to, e.asset>>]])
     /\ UNCHANGED <<settlements, balances>> /\ SettleFrame

\* Settlements whose events may be delivered more than once.
NextRedeliver ==
  \/ \E r \in SettlementRequests : CreateSettlement(r)
  \/ \E i \in SettlementIds : SettleStep(i)
  \/ \E i \in SettlementIds : Redeliver(i)

SpecRedeliver == Init /\ [][NextRedeliver]_vars

-----------------------------------------------------------------------------
(* Properties.                                                             *)

RECURSIVE SumOver(_, _)
SumOver(f, S) ==
  IF S = {} THEN 0
  ELSE LET x == CHOOSE y \in S : TRUE
       IN f[x] + SumOver(f, S \ {x})

\* Total of an asset over all addresses, for a balances table.
TotalOf(table, asset) ==
  SumOver([a \in Addresses |-> table[<<a, asset>>]], Addresses)

\* Sum of the amounts of the stored trades that reference order id.
TradedAmount(id) ==
  SumOver([i \in 1..Len(trades) |-> trades[i].amount],
          { i \in 1..Len(trades) :
              trades[i].buyOrderId = id \/ trades[i].sellOrderId = id })

OrderIds == 1..Len(orders)

\* C1: after any sequence of process_order calls handled one at a time, the
\* total base-asset balance and the total USDC balance over all addresses
\* equal their initial totals.
C1_Conservation ==
  Quiescent => \A asset \in Assets :
                 TotalOf(balances, asset) = TotalOf(SeedBalances, asset)

\* C1 witness: a trade was executed and moved balances.
C1_Witness ==
  /\ Quiescent
  /\ Len(trades) >= 1
  /\ balances # SeedBalances

\* C2: when no process_order call is in progress, every order has
\* amount = remaining_amount + the amounts of the stored trades that
\* reference it.
C2_AmountAccounting ==
  Quiescent => \A i \in OrderIds :
                 orders[i].amount = orders[i].remainingAmount + TradedAmount(i)

\* C3: no stored balance is ever negative; in particular no seller is
\* debited more base asset than they hold.  Stated for the states in which
\* every handler has finished, where a negative balance is there to stay.
C3_NoNegativeBalance ==
  Quiescent => \A k \in Addresses \X Assets : balances[k] >= 0

\* The status changes of the order status machine.
AllowedTransition(x, y) ==
  \/ x = y
  \/ x = "pending" /\ y \in {"partially_filled", "filled", "cancelled"}
  \/ x = "partially_filled" /\ y \in {"filled", "cancelled"}

\* C4: a stored status only changes along pending -> partially_filled,
\* pending -> filled, partially_filled -> filled, pending -> cancelled and
\* partially_filled -> cancelled; filled and cancelled are never left, also
\* when a cancel and a process_order call interleave.
C4_StatusMachine ==
  [][\A i \in OrderIds :
       AllowedTransition(orders[i].status, orders'[i].status)]_vars

\* C5: a stored remaining_amount never increases, and in every store state
\* remaining_amount = 0 exactly when status = filled.
C5_RemainingAndFilled ==
  [][\A i \in OrderIds :
       /\ orders'[i].remainingAmount <= orders[i].remainingAmount
       /\ (orders'[i].remainingAmount = 0) <=> (orders'[i].status = "filled")]_vars

\* A process_order call that has answered.
Answered(s) ==
  procs[s].kind = "order" /\ procs[s].pc = "done" /\ procs[s].code = 201

\* The call of slot s made a trade with order id.
Traded(s, id) ==
  \E k \in 1..Len(procs[s].trades) :
    procs[s].trades[k].buyOrderId = id \/ procs[s].trades[k].sellOrderId = id

\* Candidate k of the call of slot s could be matched by the incoming order.
Matchable(s, k) ==
  canMatch(procs[s].remainingOrder, procs[s].oppositeOrders[k])

Candidates(s) == 1..Len(procs[s].oppositeOrders)

\* C6: among the matchable candidates at one price, a later-created one is
\* never traded while an earlier-created one is left untouched.
C6_TimePriority ==
  \A s \in Slots : Answered(s) =>
    \A i, j \in Candidates(s) :
      LET x == procs[s].oppositeOrders[i]
          y == procs[s].oppositeOrders[j]
      IN (/\ x.price = y.price
          /\ Matchable(s, i) /\ Matchable(s, j)
          /\ x.createdAt < y.createdAt
          /\ Traded(s, y.id)) => Traded(s, x.id)

\* x has a strictly better price than y for an incoming order of side side:
\* a lower ask for a buy, a higher bid for a sell.
StrictlyBetter(side, x, y) ==
  IF side = "buy" THEN x.price < y.price ELSE x.price > y.price

\* C7: among the matchable candidates, one with a strictly worse price is
\* never traded while one with a strictly better price is left with
\* remaining amount.
C7_PricePriority ==
  \A s \in Slots : Answered(s) =>
    \A i, j \in Candidates(s) :
      LET x == procs[s].oppositeOrders[i]
          y == procs[s].oppositeOrders[j]
      IN (/\ StrictlyBetter(procs[s].order.side, x, y)
          /\ Matchable(s, i) /\ Matchable(s, j)
          /\ Traded(s, y.id)) => orders[x.id].remainingAmount = 0

\* C7 witness: two matchable candidates at different prices, the better one
\* traded and the worse one not.
C7_Witness ==
  \E s \in Slots : Answered(s) /\
    \E i, j \in Candidates(s) :
      LET x == procs[s].oppositeOrders[i]
          y == procs[s].oppositeOrders[j]
      IN /\ StrictlyBetter(procs[s].order.side, x, y)
         /\ Matchable(s, i) /\ Matchable(s, j)
         /\ Traded(s, x.id) /\ ~Traded(s, y.id)

\* Two orders that must not trade: same side, or two limit orders with the
\* buy price below the sell price.
Incompatible(x, y) ==
  \/ x.side = y.side
  \/ /\ x.type = "limit" /\ y.type = "limit"
     /\ \/ x.side = "buy" /\ x.price < y.price
        \/ x.side = "sell" /\ y.price < x.price

\* C8: no stored trade joins two orders of the same side or a limit buy and a
\* limit sell with buy.price < sell.price; and a process_order call whose
\* order is incompatible with every other stored order returns no trade and
\* the full amount, and leaves its order and the resting ones pending.
C8_NoMatch ==
  /\ \A k \in 1..Len(trades) :
       ~Incompatible(orders[trades[k].buyOrderId], orders[trades[k].sellOrderId])
  /\ \A s \in Slots :
       (/\ Answered(s)
        /\ \A i \in OrderIds \ {procs[s].orderId} :
             Incompatible(orders[procs[s].orderId], orders[i]))
       => /\ Len(procs[s].trades) = 0
          /\ ReturnedRemaining(procs[s]) = procs[s].req.amount
          /\ orders[procs[s].orderId].status = "pending"
          /\ \A k \in Candidates(s) :
               LET x == procs[s].oppositeOrders[k]
               IN /\ orders[x.id].status = "pending"
                  /\ orders[x.id].remainingAmount = x.amount

\* C8 witness: a call answered with a same-side order and a price-incompatible
\* opposite order resting in the book.
C8_Witness ==
  \E s \in Slots :
    /\ Answered(s)
    /\ \A i \in OrderIds \ {procs[s].orderId} :
         Incompatible(orders[procs[s].orderId], orders[i])
    /\ Len(procs[s].oppositeOrders) >= 1
    /\ \E i \in OrderIds \ {procs[s].orderId} :
         orders[i].side = procs[s].order.side

BothLimit(t) ==
  /\ orders[t.buyOrderId].type = "limit"
  /\ orders[t.sellOrderId].type = "limit"

\* C9: a trade between two limit orders has the price of the resting order,
\* the one of the two that was placed first.
C9_RestingPrice ==
  \A k \in 1..Len(trades) :
    BothLimit(trades[k]) =>
      trades[k].price =
        orders[Min2(trades[k].buyOrderId, trades[k].sellOrderId)].price

\* C10: a trade between a market order and a limit order has the limit
\* order's price.
C10_MarketPrice ==
  \A k \in 1..Len(trades) :
    LET b == orders[trades[k].buyOrderId]
        s == orders[trades[k].sellOrderId]
    IN /\ (b.type = "market" /\ s.type = "limit") => trades[k].price = s.price
       /\ (b.type = "limit" /\ s.type = "market") => trades[k].price = b.price

\* C10 witness: a trade of a market order with a limit order in which the
\* market order was placed first and its own price differs from the limit
\* order's.
C10_Witness ==
  \E k \in 1..Len(trades) :
    LET b == orders[trades[k].buyOrderId]
        s == orders[trades[k].sellOrderId]
    IN /\ b.price # s.price
       /\ \/ /\ b.type = "market" /\ s.type = "limit"
             /\ trades[k].buyOrderId < trades[k].sellOrderId
          \/ /\ b.type = "limit" /\ s.type = "market"
             /\ trades[k].sellOrderId < trades[k].buyOrderId

\* C11: the price of a trade between two limit orders lies between the two
\* limit prices: not above the buyer's limit and not below the seller's.
C11_PriceWithinLimits ==
  \A k \in 1..Len(trades) :
    BothLimit(trades[k]) =>
      LET b == orders[trades[k].buyOrderId]
          s == orders[trades[k].sellOrderId]
      IN /\ Min2(b.price, s.price) <= trades[k].price
         /\ trades[k].price <= b.price + s.price - Min2(b.price, s.price)
         /\ trades[k].price <= b.price
         /\ trades[k].price >= s.price

\* C11 witness: a stored trade between a limit buy and a limit sell of
\* different prices.
C11_Witness ==
  \E k \in 1..Len(trades) :
    /\ BothLimit(trades[k])
    /\ orders[trades[k].buyOrderId].price # orders[trades[k].sellOrderId].price

\* The order that the trade t of the call of slot s was made with.
Counterparty(s, t) ==
  IF t.buyOrderId = procs[s].orderId THEN orders[t.sellOrderId]
  ELSE orders[t.buyOrderId]

\* C12: an incoming limit buy at price P trades only with resting sells
\* priced at most P, an incoming limit sell at price P only with resting buys
\* priced at least P, whatever the type of the resting order.
C12_LimitBoundsCounterparty ==
  \A s \in Slots :
    (Answered(s) /\ procs[s].order.type = "limit") =>
      \A k \in 1..Len(procs[s].trades) :
        LET c == Counterparty(s, procs[s].trades[k])
        IN IF procs[s].order.side = "buy"
             THEN c.price <= procs[s].order.price
             ELSE c.price >= procs[s].order.price

\* Sum of the amounts of the first n trades of the call of slot s.
CallTraded(s, n) ==
  SumOver([k \in 1..n |-> procs[s].trades[k].amount], 1..n)

\* C13: after the match loop the new order is stored pending with its full
\* amount when the call made no trade, partially_filled with amount minus the
\* traded total when it made trades and something remains, filled with 0
\* when nothing remains.
C13_NewOrderStatus ==
  \A s \in Slots : Answered(s) =>
    LET o == orders[procs[s].orderId]
        n == Len(procs[s].trades)
        left == o.amount - CallTraded(s, n)
    IN /\ left >= 0
       /\ n = 0 => (o.status = "pending" /\ o.remainingAmount = o.amount)
       /\ (n > 0 /\ left > 0) =>
            (o.status = "partially_filled" /\ o.remainingAmount = left)
       /\ (n > 0 /\ left = 0) =>
            (o.status = "filled" /\ o.remainingAmount = 0)
       /\ n > 0 => left < o.amount

\* C13 witness: a call that made a trade and left its order partially filled.
C13_Witness ==
  \E s \in Slots :
    /\ Answered(s)
    /\ Len(procs[s].trades) > 0
    /\ orders[procs[s].orderId].status = "partially_filled"
    /\ orders[procs[s].orderId].remainingAmount > 0

\* C14: a trade's amount is the smaller of the two remaining amounts and is
\* positive (seen when the trade is built, before the candidate is written);
\* once the call has answered, each traded candidate is stored filled with 0
\* if it reached 0, else partially_filled with its reduced remaining amount.
C14_TradeAmount ==
  \A s \in Slots :
    /\ procs[s].pc = "oppStatus" =>
         LET n == Len(procs[s].trades)
             t == procs[s].trades[n]
             c == orders[procs[s].oppositeOrders[procs[s].idx].id]
         IN /\ t.amount > 0
            /\ t.amount = Min2(procs[s].order.amount - CallTraded(s, n - 1),
                               c.remainingAmount)
    /\ Answered(s) =>
         \A k \in 1..Len(procs[s].trades) :
           LET t == procs[s].trades[k]
               c == Counterparty(s, t)
           IN /\ c.remainingAmount = c.amount - t.amount
              /\ c.remainingAmount = 0 => c.status = "filled"
              /\ c.remainingAmount > 0 => c.status = "partially_filled"

\* C14 witness: a resting order smaller than the incoming one: one trade of
\* the resting amount, the resting order filled, the incoming one partially
\* filled with the difference.
C14_Witness ==
  \E s \in Slots :
    /\ Answered(s)
    /\ Len(procs[s].trades) = 1
    /\ LET t == procs[s].trades[1]
           c == Counterparty(s, t)
           o == orders[procs[s].orderId]
       IN /\ c.status = "filled" /\ t.amount = c.amount
          /\ o.status = "partially_filled"
          /\ o.remainingAmount = o.amount - t.amount

\* An order that is partially filled and has something left.
PartiallyFilled(i) ==
  orders[i].status = "partially_filled" /\ orders[i].remainingAmount > 0

\* The orders of the price level of order i that are still open.
OpenAtLevel(i) ==
  { j \in OrderIds : /\ orders[j].asset = orders[i].asset
                     /\ orders[j].side = orders[i].side
                     /\ orders[j].price = orders[i].price
                     /\ orders[j].status \in {"pending", "partially_filled"} }

\* C15: a partially filled order stays in the order book.  With no handler
\* running it is counted in the order book level of its price; and a call
\* that answers with something left of its order leaves no partially filled
\* opposite-side order that it could have matched.
C15_PartialFillStaysInBook ==
  /\ Quiescent =>
       \A i \in OrderIds : PartiallyFilled(i) =>
         LET book == getOrderBook(orders[i].asset, orders[i].side)
         IN \E k \in DOMAIN book :
              /\ book[k].price = orders[i].price
              /\ book[k].totalAmount = SumRemaining(OpenAtLevel(i))
  /\ \A s \in Slots :
       (Answered(s) /\ orders[procs[s].orderId].remainingAmount > 0) =>
         \A i \in OrderIds \ {procs[s].orderId} :
           ~(/\ PartiallyFilled(i)
             /\ orders[i].asset = procs[s].order.asset
             /\ canMatch(procs[s].order, Row(i)))

\* C16: a cancel request answers 200 and stores cancelled exactly when the
\* order is pending or partially_filled; otherwise it changes nothing and
\* answers 404 for an id no order has and 400 with the order's status for
\* any other order.
C16_Cancel ==
  [][\A s \in Slots :
       (procs[s].kind = "cancel" /\ procs[s].pc # "done") =>
         LET id == procs[s].orderId
             known == id \in OrderIds
             open == known /\ orders[id].status \in {"pending", "partially_filled"}
         IN /\ trades' = trades /\ balances' = balances
            /\ procs'[s].pc # "done" => orders' = orders
            /\ procs'[s].pc = "done" =>
                 /\ open => /\ procs'[s].code = 200
                            /\ orders' = [orders EXCEPT ![id].status = "cancelled"]
                 /\ (known /\ ~open) => /\ procs'[s].code = 400
                                        /\ procs'[s].status = orders[id].status
                                        /\ orders' = orders
                 /\ ~known => procs'[s].code = 404 /\ orders' = orders]_vars

\* C16 witness: a second cancel of an order answered 400 with status
\* cancelled.
C16_Witness ==
  \E s \in Slots :
    /\ procs[s].kind = "cancel" /\ procs[s].pc = "done"
    /\ procs[s].code = 400 /\ procs[s].status = "cancelled"
    /\ orders[procs[s].orderId].status = "cancelled"

\* The balance precheck of the request of slot s fails at the read it is
\* waiting for: a sell of more than the base balance, a buy costing more than
\* the USDC balance.
PrecheckFails(s) ==
  LET r == procs[s].req
  IN \/ /\ procs[s].pc = "getBalanceBase" /\ r.side = "sell"
        /\ balances[<<r.address, r.asset>>] < r.amount
     \/ /\ procs[s].pc = "getBalanceQuote" /\ r.side = "buy"
        /\ balances[<<r.address, "USDC">>] < r.amount * r.price

\* C17: a request whose balance precheck fails is answered 400 and creates
\* no order: orders, trades and balances stay as they were.
C17_PrecheckRejects ==
  [][\A s \in Slots :
       (PrecheckFails(s) /\ procs'[s] # procs[s]) =>
         /\ procs'[s].pc = "done" /\ procs'[s].code = 400
         /\ procs'[s].orderId = 0
         /\ orders' = orders /\ trades' = trades /\ balances' = balances]_vars

\* C17 witness: a buy rejected for want of USDC and no order made for it.
C17_Witness ==
  \E s \in Slots :
    /\ procs[s].kind = "order" /\ procs[s].pc = "done" /\ procs[s].code = 400
    /\ procs[s].req.side = "buy"
    /\ balances[<<procs[s].req.address, "USDC">>]
         < procs[s].req.amount * procs[s].req.price
    /\ \A i \in OrderIds : orders[i].address # procs[s].req.address

\* The settlement taken last: nothing has touched the balances since its
\* processing began except its own processing.
Latest(i) == i = Len(settlements)

BalanceOfSender(i) == balances[<<settlements[i].from, settlements[i].asset>>]

BalanceOfReceiver(i) == balances[<<settlements[i].to, settlements[i].asset>>]

\* C18: when a settlement is confirmed the sender's balance is its balance
\* before processing minus the amount, the receiver's is its balance before
\* processing plus the amount, so their sum is preserved, and the sender's
\* balance is not negative.
C18_ConfirmedMovesAmount ==
  \A i \in SettlementIds :
    (Latest(i) /\ settlements[i].status = "confirmed") =>
      /\ BalanceOfSender(i) = jobs[i].fromBefore - settlements[i].amount
      /\ BalanceOfReceiver(i) = jobs[i].toBefore + settlements[i].amount
      /\ BalanceOfSender(i) + BalanceOfReceiver(i)
           = jobs[i].fromBefore + jobs[i].toBefore
      /\ BalanceOfSender(i) >= 0

\* C18 witness: a second settlement confirmed and finished, after a first
\* one had moved the balances.
C18_Witness ==
  \E i \in SettlementIds :
    /\ Latest(i) /\ i > 1
    /\ settlements[i].status = "confirmed" /\ jobs[i].pc = "end"
    /\ settlements[1].status = "confirmed"
    /\ jobs[i].fromBefore # SeedBalances[<<settlements[i].from, settlements[i].asset>>]

\* C19: a settlement whose final status is failed has left the balances of
\* its sender and its receiver as they were before its processing.
C19_FailedLeavesBalances ==
  \A i \in SettlementIds :
    (Latest(i) /\ settlements[i].status = "failed" /\ jobs[i].pc = "end") =>
      /\ BalanceOfSender(i) = jobs[i].fromBefore
      /\ BalanceOfReceiver(i) = jobs[i].toBefore

\* C20: once the status of a settlement is confirmed or failed, no step
\* changes it.
C20_TerminalStatus ==
  [][\A i \in SettlementIds :
       settlements[i].status \in {"confirmed", "failed"} =>
         settlements'[i].status = settlements[i].status]_vars

\* C21: when the event of a settlement that is confirmed or failed is
\* delivered again, the handler changes neither the balances nor the
\* settlement's status.
C21_NoReprocessing ==
  [][\A i \in SettlementIds :
       (jobs[i].delivery > 1 /\ jobs[i].pc # "end") =>
         /\ balances' = balances
         /\ settlements'[i].status = settlements[i].status]_vars

\* The trade that the step adds to the trade list of the call of slot s.
BuiltTrade(s) == procs'[s].trades[Len(procs'[s].trades)]

\* C22: every stored trade joins a buy order and a sell order that are
\* distinct and of the trade's asset; when a call builds a trade, the stored
\* remaining amount of each of the two orders is at least the trade's amount;
\* and no order is traded for more than its amount.
C22_TradeWithinRemaining ==
  [][/\ \A k \in 1..Len(trades') :
          LET b == orders'[trades'[k].buyOrderId]
              s == orders'[trades'[k].sellOrderId]
          IN /\ trades'[k].buyOrderId # trades'[k].sellOrderId
             /\ b.side = "buy" /\ s.side = "sell"
             /\ b.asset = trades'[k].asset /\ s.asset = trades'[k].asset
     /\ \A s \in Slots :
          Len(procs'[s].trades) > Len(procs[s].trades) =>
            /\ orders'[BuiltTrade(s).buyOrderId].remainingAmount
                 >= BuiltTrade(s).amount
            /\ orders'[BuiltTrade(s).sellOrderId].remainingAmount
                 >= BuiltTrade(s).amount
     /\ \A i \in 1..Len(orders') : TradedAmount(i)' <= orders'[i].amount]_vars

\* What the stored trade t adds to the balance of address and asset.
TradeEffect(t, address, asset) ==
  (IF t.buyerAddress = address /\ t.asset = asset THEN t.amount ELSE 0)
  + (IF t.sellerAddress = address /\ t.asset = asset THEN 0 - t.amount ELSE 0)
  + (IF t.buyerAddress = address /\ getQuoteAsset(t.asset) = asset
       THEN 0 - t.amount * t.price ELSE 0)
  + (IF t.sellerAddress = address /\ getQuoteAsset(t.asset) = asset
       THEN t.amount * t.price ELSE 0)

\* The balance of address and asset that the stored trades account for.
SettledBalance(address, asset) ==
  SeedBalances[<<address, asset>>]
  + SumOver([k \in 1..Len(trades) |-> TradeEffect(trades[k], address, asset)],
            1..Len(trades))

\* C23: the writes of a matching step persist together or not at all.  When
\* every call has returned, also after a failed store write, an order is
\* stored filled or partially_filled only with the trade records of what it
\* lost, and the balances are those the stored trades account for.
C23_AtomicStep ==
  Quiescent =>
    /\ \A i \in OrderIds :
         orders[i].status \in {"filled", "partially_filled"} =>
           /\ TradedAmount(i) > 0
           /\ TradedAmount(i) = orders[i].amount - orders[i].remainingAmount
    /\ \A k \in Addresses \X Assets : balances[k] = SettledBalance(k[1], k[2])

\* The call of slot s is between the read of its candidate snapshot and its
\* last store write.
InMatchLoop(s) ==
  /\ procs[s].kind = "order"
  /\ procs[s].pc \in {"oppStatus", "oppRemaining", "newStatus", "newRemaining",
                       "createTrade", "getBalance", "updateBalance"}

\* C24: two process_order calls on the same asset are never both between the
\* read of the candidate snapshot and the last store write.
C24_NoInterleaving ==
  \A s, u \in Slots :
    (s # u /\ InMatchLoop(s) /\ InMatchLoop(u)) =>
      procs[s].order.asset # procs[u].order.asset

\* The pending orders of an asset and a side at price p.
PendingAt(asset, side, p) ==
  { i \in OrderIds : /\ orders[i].asset = asset /\ orders[i].side = side
                     /\ orders[i].status = "pending" /\ orders[i].price = p }

\* The prices at which an asset has pending orders of a side.
PendingPrices(asset, side) ==
  { orders[i].price : i \in { j \in OrderIds : /\ orders[j].asset = asset
                                                /\ orders[j].side = side
                                                /\ orders[j].status = "pending" } }

C26_MarketNeverRests ==
  \A s \in Slots : Answered(s) =>
    /\ procs[s].order.type = "market" =>
         orders[procs[s].orderId].status # "pending"
    /\ \A k \in 1..Len(procs[s].trades) :
         Counterparty(s, procs[s].trades[k]).type # "market"

\* The request of settlement i was published on settlement_requests.
Published(i) == jobs[i].pc # "publish" /\ jobs[i].thrownAt # "publish"

\* C27: an error raised while a settlement_requests message is handled does
\* not end the subscription: every request published afterwards is
\* delivered to the handler.
C27_SubscriptionSurvives ==
  bus.malformed > 0 =>
    /\ bus.subscribed
    /\ \A i \in SettlementIds :
         (i > bus.at /\ Published(i)) => jobs[i].delivery >= 1

\* C27 witness: a settlement requested after a malformed message was
\* delivered and processed to confirmed.
C27_Witness ==
  /\ bus.malformed > 0
  /\ \E i \in SettlementIds :
       /\ i > bus.at /\ Published(i)
       /\ jobs[i].delivery = 1 /\ jobs[i].pc = "end"
       /\ settlements[i].status = "confirmed"

\* C28: when a store or publish operation of the processor's try block has
\* raised an error, the processor returns normally; the settlement is then
\* stored failed and settlement_failed was published with the reason
\* 'Processing error occurred', unless the failure-marking itself raised an
\* error, in which case the processor still returns normally.
C28_ProcessingError ==
  \A i \in SettlementIds :
    (jobs[i].thrownAt \in TryOperations /\ jobs[i].pc = "end") =>
      /\ jobs[i].outcome = "returned"
      /\ jobs[i].catchThrownAt = "" =>
           /\ settlements[i].status = "failed"
           /\ jobs[i].event = "settlement_failed: Processing error occurred"
      /\ jobs[i].catchThrownAt = "catchPublish" =>
           settlements[i].status = "failed"

\* C28 witness: one settlement whose transfer raised an error and was marked
\* failed with the event published, and another whose failure-marking raised
\* an error as well, both returned.
C28_Witness ==
  \E i, j \in SettlementIds :
    /\ jobs[i].pc = "end" /\ jobs[j].pc = "end"
    /\ jobs[i].thrownAt = "updReceiver" /\ jobs[i].catchThrownAt = ""
    /\ settlements[i].status = "failed"
    /\ jobs[i].event = "settlement_failed: Processing error occurred"
    /\ jobs[j].thrownAt = "getSender" /\ jobs[j].catchThrownAt = "catchStatus"
    /\ settlements[j].status = "pending"
    /\ jobs[j].outcome = "returned"

\* The call of slot s traded the stored order i as a candidate.
TradedAsCandidate(s, i) ==
  /\ procs[s].kind = "order"
  /\ i # procs[s].orderId
  /\ Traded(s, i)

\* C29: every candidate of a match loop was read as a pending order of the
\* incoming order's asset and of the opposite side; and a resting order is
\* traded as a candidate by at most one process_order call.
C29_PendingCandidatesOnly ==
  /\ \A s \in Slots : \A k \in Candidates(s) :
       /\ procs[s].oppositeOrders[k].status = "pending"
       /\ procs[s].oppositeOrders[k].asset = procs[s].order.asset
       /\ procs[s].oppositeOrders[k].side # procs[s].order.side
  /\ \A s, u \in Slots : \A i \in OrderIds :
       s # u => ~(TradedAsCandidate(s, i) /\ TradedAsCandidate(u, i))

\* C30: in every state a settlement's confirmed_at is set if and only if its
\* status is confirmed.
C30_ConfirmedAt ==
  \A i \in SettlementIds :
    (settlements[i].confirmedAt # "null") <=> (settlements[i].status = "confirmed")

\* C30 witness: a settlement that was confirmed and then marked failed by the
\* catch block, with confirmed_at back to NULL, next to a confirmed one.
C30_Witness ==
  \E i, j \in SettlementIds :
    /\ jobs[i].thrownAt = "confirmPublish" /\ settlements[i].status = "failed"
    /\ settlements[i].confirmedAt = "null"
    /\ settlements[j].status = "confirmed" /\ settlements[j].confirmedAt = "time"

\* C31: the settlement_requests event is published only after the pending
\* row was inserted, and not at all when the insert fails; the
\* settlement_confirmed event is published only after both balance writes
\* and the status update.  So a handler that runs finds its row, and a
\* settlement whose settlement_confirmed event exists is stored confirmed
\* with the amount moved.
C31_ProtocolOrder ==
  \A i \in SettlementIds :
    /\ jobs[i].delivery >= 1 => settlements[i].status # "absent"
    /\ jobs[i].thrownAt = "insert" =>
         (jobs[i].pc = "end" /\ jobs[i].delivery = 0
          /\ settlements[i].status = "absent")
    /\ jobs[i].pc = "confirmPublish" => settlements[i].status = "confirmed"
    /\ jobs[i].event = "settlement_confirmed" =>
         /\ settlements[i].status = "confirmed"
         /\ Latest(i) =>
              /\ BalanceOfSender(i) = jobs[i].fromBefore - settlements[i].amount
              /\ BalanceOfReceiver(i) = jobs[i].toBefore + settlements[i].amount

\* C31 witness: one request whose insert failed and that was never
\* published, and one whose settlement_confirmed event was published.
C31_Witness ==
  \E i, j \in SettlementIds :
    /\ jobs[i].thrownAt = "insert" /\ jobs[i].pc = "end"
    /\ settlements[i].status = "absent"
    /\ jobs[j].event = "settlement_confirmed" /\ jobs[j].delivery = 1
    /\ settlements[j].status = "confirmed"

\* C32: every settlement created by POST /settle eventually leaves the
\* pending state.
StillPending(i) == i \in SettlementIds /\ settlements[i].status = "pending"

C32_LeavesPending ==
  \A i \in 1..MaxSettlements : StillPending(i) ~> ~StillPending(i)

\* A handler of POST /api/orders leaves a store write of process_order
\* without the 201 answer: the write raised an error.
StoreFailure(s) ==
  /\ procs[s].kind = "order" /\ procs[s].pc \in WriteOperations
  /\ procs'[s].pc = "done" /\ procs'[s].code # 201

\* C33: an engine or store failure while an order is processed is answered
\* 500 Internal Server Error; 400 is kept for requests that are malformed.
C33_StoreFailureIs500 ==
  [][\A s \in Slots : StoreFailure(s) => procs'[s].code = 500]_vars

\* C34: a cancel answered 200 changes the status of its order and nothing
\* else: the order's other columns (remaining_amount among them), the other
\* orders, the trades and the balances are as before.
C34_CancelChangesStatusOnly ==
  [][\A s \in Slots :
       (procs[s].kind = "cancel" /\ procs[s].pc # "done"
          /\ procs'[s].pc = "done" /\ procs'[s].code = 200) =>
         LET id == procs[s].orderId
         IN /\ trades' = trades /\ balances' = balances
            /\ Len(orders') = Len(orders)
            /\ \A i \in OrderIds :
                 /\ i # id => orders'[i] = orders[i]
                 /\ i = id => /\ orders'[i] = [orders[i] EXCEPT !.status = "cancelled"]
                              /\ orders'[i].remainingAmount = orders[i].remainingAmount]_vars

\* C34 witness: a cancel answered 200 for an order that had traded part of
\* its amount; the rest is still recorded as remaining.
C34_Witness ==
  \E s \in Slots :
    /\ procs[s].kind = "cancel" /\ procs[s].pc = "done" /\ procs[s].code = 200
    /\ orders[procs[s].orderId].status = "cancelled"
    /\ TradedAmount(procs[s].orderId) > 0
    /\ orders[procs[s].orderId].remainingAmount > 0
    /\ orders[procs[s].orderId].remainingAmount
         = orders[procs[s].orderId].amount - TradedAmount(procs[s].orderId)

Crossed(i, j) ==
  /\ orders[i].status = "pending" /\ orders[j].status = "pending"
  /\ orders[i].type = "limit" /\ orders[j].type = "limit"
  /\ orders[i].asset = orders[j].asset
  /\ orders[i].side = "buy" /\ orders[j].side = "sell"
  /\ orders[i].price >= orders[j].price

\* C36: with calls handled one at a time and none in progress, no pending
\* limit buy is priced at or above a pending limit sell of the same asset.
C36_NeverCrossed ==
  Quiescent => \A i, j \in OrderIds : ~Crossed(i, j)

\* C36 witness: with no call in progress, a pending limit buy and a pending
\* limit sell of one asset rest together, the buy priced below the sell.
C36_Witness ==
  /\ Quiescent
  /\ \E i, j \in OrderIds :
       /\ orders[i].status = "pending" /\ orders[j].status = "pending"
       /\ orders[i].type = "limit" /\ orders[j].type = "limit"
       /\ orders[i].asset = orders[j].asset
       /\ orders[i].side = "buy" /\ orders[j].side = "sell"
       /\ orders[i].price < orders[j].price

\* The USDC that the trade records of buy order id take from its buyer.
DebitedUSDC(id) ==
  SumOver([k \in 1..Len(trades) |-> trades[k].amount * trades[k].price],
          { k \in 1..Len(trades) : trades[k].buyOrderId = id })

\* C37: the USDC debited from the buyer by the trades of a buy order never
\* exceeds amount x price of the order, the quantity the precheck verified.
C37_BuyerChargeBounded ==
  \A i \in OrderIds :
    orders[i].side = "buy" => DebitedUSDC(i) <= orders[i].amount * orders[i].price

\* The balance of (address, asset) that the confirmed settlements and the
\* trade records account for, from the initial balance.
Ledger(address, asset) ==
  SeedBalances[<<address, asset>>]
  + SumOver([i \in SettlementIds |->
               IF settlements[i].status # "confirmed" \/ settlements[i].asset # asset
                 THEN 0
               ELSE (IF settlements[i].to = address THEN settlements[i].amount ELSE 0)
                    - (IF settlements[i].from = address THEN settlements[i].amount ELSE 0)],
            SettlementIds)
  + SumOver([k \in 1..Len(trades) |->
               IF asset = trades[k].asset
                 THEN (IF trades[k].buyerAddress = address THEN trades[k].amount ELSE 0)
                      - (IF trades[k].sellerAddress = address THEN trades[k].amount ELSE 0)
               ELSE IF asset = "USDC"
                 THEN (IF trades[k].sellerAddress = address
                         THEN trades[k].amount * trades[k].price ELSE 0)
                      - (IF trades[k].buyerAddress = address
                           THEN trades[k].amount * trades[k].price ELSE 0)
               ELSE 0],
            1..Len(trades))

\* Every settlement handler and every order handler has completed.
AllCompleted == Quiescent /\ SettleQuiescent

\* C38: whatever the interleaving of settlement handlers and process_order
\* calls, once all have completed no balance update is lost (each balance
\* is the initial one plus the confirmed settlements and the trades), the
\* total of each asset is the initial total, and the confirmed settlements
\* of a sender were covered by the sender's funds.
C38_NoLostUpdate ==
  AllCompleted =>
    /\ \A asset \in Assets : TotalOf(balances, asset) = TotalOf(SeedBalances, asset)
    /\ \A address \in Addresses : \A asset \in Assets :
         /\ balances[<<address, asset>>] = Ledger(address, asset)
         /\ Ledger(address, asset) >= 0

\* C39: once a cancel of an order has answered 200 (the order is stored
\* cancelled), no trade is created against the order and its status is not
\* written again, also when a process_order call that took the order as a
\* candidate is still in its match loop.
C39_CancelIsFinal ==
  [][\A i \in OrderIds :
       orders[i].status = "cancelled" =>
         /\ orders'[i].status = "cancelled"
         /\ TradedAmount(i)' = TradedAmount(i)]_vars

\* C40: no trade record has the same address as buyer and as seller.
C40_NoSelfTrade ==
  \A k \in 1..Len(trades) : trades[k].buyerAddress # trades[k].sellerAddress

=============================================================================
